---- MODULE Spec2Model ----
(***************************************************************************)
(* Model of crates/languages/src/csharp.rs: the Roslyn language-server     *)
(* acquisition pipeline (CsharpLspAdapter) and the MSBuild property        *)
(* parser.                                                                 *)
(*                                                                         *)
(*   Spec      : fetch_server_binary / cached_server_binary on one         *)
(*               container directory, calls running one after the other.   *)
(***************************************************************************)
EXTENDS Integers, Sequences, FiniteSets, TLC

(***************************************************************************)
(* Input domains.                                                          *)
(***************************************************************************)
None == "None"

\* release tags (GitHubLspBinaryVersion.name)
Names == {"v1", "v2"}

\* SHA-256 digests of the asset contents
Digests == {"d1", "d2"}

\* the tasks that may call fetch_server_binary
Procs == {"A", "B"}

VARIABLES
    versionDirs,   \* names n whose directory roslyn-n exists in the container
    staging,       \* per name: the directory roslyn-n-tmp
    binary,        \* per name: the file roslyn-n/csharp-language-server
    metadata,      \* per name: the file roslyn-n/metadata
    stray,         \* a plain file lies in the container directory
    call,          \* per task: the fetch_server_binary call in progress
    cached,        \* the last cached_server_binary query and its result
    lastOk,        \* the last call that returned Ok; fresh: no call returned since
    latest,        \* the fetch_latest_server_version call
    tree,          \* the directory tree find_binary_in_dir searches
    find,          \* the find_binary_in_dir call
    output,        \* the combined MSBuild output, a sequence of characters
    property,      \* the property asked for, a sequence of characters
    parse          \* the parse_msbuild_property_output call

fsVars == <<versionDirs, staging, binary, metadata, stray>>
fetchVars == <<versionDirs, staging, binary, metadata, stray, call, cached, lastOk>>
latestVars == <<latest>>
findVars == <<tree, find>>
parseVars == <<output, property, parse>>
vars == <<fetchVars, latestVars, findVars, parseVars>>

\* the variables fetch_server_binary and cached_server_binary leave alone
notFetch == <<latestVars, findVars, parseVars>>

\* where the extracted tree holds a file csharp-language-server
Layouts == {"none", "root", "nested"}

NoStaging == [present |-> FALSE, layout |-> "none"]
NoBinary == [present |-> FALSE, exec |-> FALSE]
NoMetadata == [present |-> FALSE, metadata_version |-> 0, digest |-> None]
\* Option<LanguageServerBinary>::None / no path
NoPath == <<>>

NoQuery == [asked |-> FALSE, readable |-> TRUE, listing |-> <<>>, result |-> NoPath]

\* fs::read_dir(&container_dir) fails
ReadDirError == << <<"read_dir error">> >>
NoCall == [name |-> None, fresh |-> FALSE]

\* container_dir.join(format!("roslyn-{}", name))
VersionDir(n) == <<"roslyn", n>>
\* container_dir.join(format!("roslyn-{}-tmp", name))
TmpDir(n) == <<"roslyn", n, "tmp">>
StrayFile == <<"stray">>

\* the entries a read_dir of the container directory yields
ContainerEntries ==
    {VersionDir(n) : n \in versionDirs}
        \cup {TmpDir(n) : n \in {m \in Names : staging[m].present}}
        \cup (IF stray THEN {StrayFile} ELSE {})

\* entry.file_type().await?.is_dir()
IsDirEntry(e) == e \in {VersionDir(n) : n \in Names} \cup {TmpDir(n) : n \in Names}

FsState ==
    [versionDirs |-> versionDirs, staging |-> staging, binary |-> binary,
     metadata |-> metadata, stray |-> stray]

EmptyFs ==
    [versionDirs |-> {}, staging |-> [n \in Names |-> NoStaging],
     binary |-> [n \in Names |-> NoBinary],
     metadata |-> [n \in Names |-> NoMetadata], stray |-> FALSE]

IdleCall ==
    [pc |-> "idle", name |-> None, expected |-> None, repeat |-> FALSE,
     mismatch |-> FALSE,
     hadRecord |-> FALSE, livenessFailed |-> FALSE, downloaded |-> FALSE,
     installed |-> FALSE, warmup |-> "none", result |-> "none",
     err |-> "none", path |-> NoPath, arguments |-> <<>>, env |-> None,
     before |-> EmptyFs, overlap |-> FALSE]

NoLatest ==
    [pc |-> "off", arch |-> None, os |-> None, pre_release |-> FALSE,
     queries |-> 0, tag |-> None, assets |-> <<>>, err |-> "none",
     version |-> None]
NoTree == <<>>
NoFind == [pc |-> "off", stack |-> <<>>, dir |-> 0, pending |-> {},
           result |-> "none", path |-> 0]

\* Option<String>: None, Some(val)
NoneStr == [some |-> FALSE, val |-> <<>>]
Some(v) == [some |-> TRUE, val |-> v]

NoParse == [pc |-> "off", by |-> "none", result |-> NoneStr, map |-> {}]

InitFetch ==
    /\ versionDirs = {}
    /\ staging = [n \in Names |-> NoStaging]
    /\ binary = [n \in Names |-> NoBinary]
    /\ metadata = [n \in Names |-> NoMetadata]
    /\ stray \in BOOLEAN
    /\ call = [p \in Procs |-> IdleCall]
    /\ cached = NoQuery
    /\ lastOk = NoCall

Init ==
    /\ InitFetch
    /\ latest = NoLatest
    /\ tree = NoTree
    /\ find = NoFind
    /\ output = <<>> /\ property = <<>> /\ parse = NoParse

\* version_dir.join(&binary_name)
BinaryPath(n) == <<VersionDir(n), "csharp-language-server">>

\* the call returns: Ok(LanguageServerBinary {path: binary_path, env: None,
\* arguments: Default::default()}) or the error
Finish(c, res, e) ==
    [c EXCEPT !.pc = "done", !.result = res, !.err = e,
              !.path = IF res = "Ok" THEN BinaryPath(c.name) ELSE NoPath]

\* calls run one after the other: a call starts when no other is in progress
Sequential == \A q \in Procs : call[q].pc = "idle"

Begin(p, n, e) ==
    /\ Sequential
    /\ call' = [call EXCEPT ![p] =
                    [IdleCall EXCEPT !.pc = "read_metadata", !.name = n,
                                     !.expected = e, !.before = FsState,
                                     !.repeat = (lastOk.fresh /\ lastOk.name = n)]]
    /\ cached' = NoQuery
    /\ UNCHANGED <<fsVars, lastOk>>
    /\ UNCHANGED notFetch

\* GithubBinaryMetadata::read_from_file(&metadata_path).await.ok()
ReadFromFile(n) ==
    IF n \in versionDirs /\ metadata[n].present
    THEN metadata[n] ELSE NoMetadata

\* the branch taken after the cache record was read (lines 118-154)
CacheDecision(m, e) ==
    IF ~m.present THEN "check_binary"
    ELSE IF m.digest # None /\ e # None
         THEN IF m.digest = e THEN "validity_check" ELSE "mismatch"
         ELSE "validity_check"

ReadMetadata(p) ==
    /\ call[p].pc = "read_metadata"
    /\ LET c == call[p]
           m == ReadFromFile(c.name)
           d == CacheDecision(m, c.expected)
       IN call' = [call EXCEPT ![p] =
                [c EXCEPT !.hadRecord = m.present,
                          !.mismatch = (d = "mismatch"),
                          !.pc = IF d = "mismatch" THEN "check_binary" ELSE d]]
    /\ UNCHANGED <<fsVars, cached, lastOk>>
    /\ UNCHANGED notFetch

\* delegate.try_exec(binary_path --version): can succeed only on a file that
\* is there and executable; a present binary may still fail to run
CanExec(n) == n \in versionDirs /\ binary[n].present /\ binary[n].exec

\* the early return on a successful check is missing
ValidityCheck_NoEarlyReturn(p, ok) ==
    /\ call[p].pc = "validity_check"
    /\ ok => CanExec(call[p].name)
    /\ call' = [call EXCEPT ![p] =
                    IF ok THEN [@ EXCEPT !.pc = "download"]
                    ELSE [@ EXCEPT !.livenessFailed = TRUE, !.pc = "check_binary"]]
    /\ UNCHANGED <<fsVars, cached, lastOk>>
    /\ UNCHANGED notFetch

ValidityCheck(p, ok) ==
    /\ call[p].pc = "validity_check"
    /\ ok => CanExec(call[p].name)
    /\ call' = [call EXCEPT ![p] =
                    IF ok THEN Finish(@, "Ok", "none")
                    ELSE [@ EXCEPT !.livenessFailed = TRUE, !.pc = "check_binary"]]
    /\ UNCHANGED <<fsVars, cached, lastOk>>
    /\ UNCHANGED notFetch

\* fs::metadata(&binary_path).await.is_err()
\* the version directory is looked up instead of the binary inside it
BinaryMissing_DirOnly(n) == n \notin versionDirs

BinaryMissing(n) == ~(n \in versionDirs /\ binary[n].present)

\* the siblings are evicted before the download instead of after the copy
CheckBinary_EvictFirst(p) ==
    /\ call[p].pc = "check_binary"
    /\ call' = [call EXCEPT ![p] =
                    IF BinaryMissing(@.name) THEN [@ EXCEPT !.pc = "download"]
                    ELSE Finish(@, "Ok", "none")]
    /\ LET keep(n) == n = call[p].name \/ ~BinaryMissing(call[p].name)
       IN /\ versionDirs' = {n \in versionDirs : keep(n)}
          /\ binary' = [n \in Names |-> IF keep(n) THEN binary[n] ELSE NoBinary]
          /\ metadata' = [n \in Names |-> IF keep(n) THEN metadata[n] ELSE NoMetadata]
    /\ UNCHANGED <<staging, stray, cached, lastOk>>
    /\ UNCHANGED notFetch

CheckBinary(p) ==
    /\ call[p].pc = "check_binary"
    /\ call' = [call EXCEPT ![p] =
                    IF BinaryMissing(@.name) THEN [@ EXCEPT !.pc = "download"]
                    ELSE Finish(@, "Ok", "none")]
    /\ UNCHANGED <<fsVars, cached, lastOk>>
    /\ UNCHANGED notFetch

\* download_server_binary succeeded: the archive served at the url passed
\* the digest verification and is extracted into roslyn-n-tmp
DownloadOk(p, layout) ==
    /\ call[p].pc = "download"
    /\ staging' = [staging EXCEPT ![call[p].name] =
                    [present |-> TRUE, layout |-> layout]]
    /\ call' = [call EXCEPT ![p] = [@ EXCEPT !.downloaded = TRUE, !.pc = "find"]]
    /\ UNCHANGED <<versionDirs, binary, metadata, stray, cached, lastOk>>
    /\ UNCHANGED notFetch

\* download_server_binary failed (transfer error, digest mismatch, broken
\* archive); left: what it had written into the staging directory by then
DownloadFail(p, left) ==
    /\ call[p].pc = "download"
    /\ staging' = IF left = "clean" THEN staging
                  ELSE [staging EXCEPT ![call[p].name] =
                            [present |-> TRUE, layout |-> left]]
    /\ call' = [call EXCEPT ![p] =
                    Finish([@ EXCEPT !.downloaded = TRUE], "Err", "download")]
    /\ UNCHANGED <<versionDirs, binary, metadata, stray, cached, lastOk>>
    /\ UNCHANGED notFetch

\* find_binary_in_dir(&destination_container_path, &binary_name)
FindBinary(p) ==
    /\ call[p].pc = "find"
    /\ LET s == staging[call[p].name]
       IN call' = [call EXCEPT ![p] =
                IF s.present /\ s.layout # "none" THEN [@ EXCEPT !.pc = "create_dir"]
                ELSE Finish(@, "Err", "find")]
    /\ UNCHANGED <<fsVars, cached, lastOk>>
    /\ UNCHANGED notFetch

\* fs::create_dir_all(&version_dir)
CreateDir(p) ==
    /\ call[p].pc = "create_dir"
    /\ versionDirs' = versionDirs \cup {call[p].name}
    /\ call' = [call EXCEPT ![p] = [@ EXCEPT !.pc = "copy"]]
    /\ UNCHANGED <<staging, binary, metadata, stray, cached, lastOk>>
    /\ UNCHANGED notFetch

\* fs::copy(&found, &binary_path): the copy carries the permission bits of
\* the extracted file, which may or may not include the executable bits
CopyBinary(p, x) ==
    /\ call[p].pc = "copy"
    /\ LET n == call[p].name
       IN /\ n \in versionDirs
          /\ staging[n].present /\ staging[n].layout # "none"
          /\ binary' = [binary EXCEPT ![n] =
                    [present |-> TRUE, exec |-> x]]
    /\ call' = [call EXCEPT ![p] = [@ EXCEPT !.pc = "remove_matching"]]
    /\ UNCHANGED <<versionDirs, staging, metadata, stray, cached, lastOk>>
    /\ UNCHANGED notFetch

\* the predicate handed to remove_matching: |entry| entry != version_dir
\* only the other version directories are evicted, staging directories stay
EvictEntry_VersionDirsOnly(entry, version_dir) ==
    entry # version_dir /\ entry \in {VersionDir(n) : n \in Names}

EvictEntry(entry, version_dir) == entry # version_dir

\* util::fs::remove_matching(&container_dir, pred): deletes every entry of
\* the container directory the predicate selects
RemoveMatching(p) ==
    /\ call[p].pc = "remove_matching"
    /\ LET vd == VersionDir(call[p].name)
           goneDir(n) == n \in versionDirs /\ EvictEntry(VersionDir(n), vd)
       IN /\ versionDirs' = {n \in versionDirs : ~goneDir(n)}
          /\ staging' = [n \in Names |->
                    IF staging[n].present /\ EvictEntry(TmpDir(n), vd)
                    THEN NoStaging ELSE staging[n]]
          /\ binary' = [n \in Names |-> IF goneDir(n) THEN NoBinary ELSE binary[n]]
          /\ metadata' = [n \in Names |->
                    IF goneDir(n) THEN NoMetadata ELSE metadata[n]]
          /\ stray' = (stray /\ ~EvictEntry(StrayFile, vd))
    /\ call' = [call EXCEPT ![p] = [@ EXCEPT !.pc = "write_metadata"]]
    /\ UNCHANGED <<cached, lastOk>>
    /\ UNCHANGED notFetch

\* GithubBinaryMetadata::write_to_file(&{metadata_version: 1, digest}, ..)
WriteMetadata(p) ==
    /\ call[p].pc = "write_metadata"
    /\ call[p].name \in versionDirs
    /\ metadata' = [metadata EXCEPT ![call[p].name] =
                    [present |-> TRUE, metadata_version |-> 1,
                     digest |-> call[p].expected]]
    /\ call' = [call EXCEPT ![p] = [@ EXCEPT !.pc = "spawn_warmup"]]
    /\ UNCHANGED <<versionDirs, staging, binary, stray, cached, lastOk>>
    /\ UNCHANGED notFetch

\* smol::spawn(async move { .. }).detach(): the warm-up task is handed to the
\* executor, which may run it at once on another thread or at any later time
SpawnWarmup(p) ==
    /\ call[p].pc = "spawn_warmup"
    /\ call' = [call EXCEPT ![p] =
                    [@ EXCEPT !.warmup = "spawned", !.pc = "set_permissions"]]
    /\ UNCHANGED <<fsVars, cached, lastOk>>
    /\ UNCHANGED notFetch

\* the detached task runs new_smol_command(&bp).arg("--download").output():
\* the process starts if the binary can be executed at that moment, and the
\* failure to start it is ignored otherwise
WarmupRun(p) ==
    /\ call[p].warmup = "spawned"
    /\ call' = [call EXCEPT ![p] =
                    [@ EXCEPT !.warmup = IF CanExec(call[p].name)
                                         THEN "exec" ELSE "noexec"]]
    /\ UNCHANGED <<fsVars, cached, lastOk>>
    /\ UNCHANGED notFetch

\* std::fs::set_permissions(&binary_path, from_mode(0o755))
SetPermissions(p) ==
    /\ call[p].pc = "set_permissions"
    /\ ~BinaryMissing(call[p].name)
    /\ binary' = [binary EXCEPT ![call[p].name].exec = TRUE]
    /\ call' = [call EXCEPT ![p] = Finish([@ EXCEPT !.installed = TRUE], "Ok", "none")]
    /\ UNCHANGED <<versionDirs, staging, metadata, stray, cached, lastOk>>
    /\ UNCHANGED notFetch

\* a filesystem operation of the install steps fails and `?` returns the error
IoError(p) ==
    /\ call[p].pc \in {"create_dir", "copy", "write_metadata", "set_permissions"}
    /\ call' = [call EXCEPT ![p] = Finish(@, "Err", "io")]
    /\ UNCHANGED <<fsVars, cached, lastOk>>
    /\ UNCHANGED notFetch

\* the caller takes the result
Return(p) ==
    /\ call[p].pc = "done"
    /\ call' = [call EXCEPT ![p] = IdleCall]
    /\ lastOk' = IF call[p].result = "Ok"
                 THEN [name |-> call[p].name, fresh |-> TRUE]
                 ELSE [lastOk EXCEPT !.fresh = FALSE]
    /\ UNCHANGED <<fsVars, cached>>
    /\ UNCHANGED notFetch

(***************************************************************************)
(* cached_server_binary -> get_cached_roslyn_binary                        *)
(***************************************************************************)
\* the orders in which read_dir may list a set of entries
RECURSIVE Listings(_)
Listings(S) ==
    IF S = {} THEN {<<>>}
    ELSE UNION {{<<e>> \o l : l \in Listings(S \ {e})} : e \in S}

\* the loop of lines 273-280: the last directory of the listing
\* the first directory of the listing is kept instead of the last
RECURSIVE LastDir_First(_, _)
LastDir_First(listing, last) ==
    IF listing = <<>> THEN last
    ELSE LastDir_First(Tail(listing),
                       IF IsDirEntry(Head(listing)) /\ last = <<>>
                       THEN Head(listing) ELSE last)

RECURSIVE LastDir(_, _)
LastDir(listing, last) ==
    IF listing = <<>> THEN last
    ELSE LastDir(Tail(listing),
                 IF IsDirEntry(Head(listing)) THEN Head(listing) ELSE last)

\* roslyn_bin.exists()
BinExists(dir) ==
    \E n \in Names :
        \/ dir = VersionDir(n) /\ n \in versionDirs /\ binary[n].present
        \/ dir = TmpDir(n) /\ staging[n].present /\ staging[n].layout = "root"

GetCachedRoslynBinary(listing) ==
    LET roslyn_dir == LastDir(listing, <<>>)
    IN IF listing = ReadDirError \/ roslyn_dir = <<>> THEN NoPath
       ELSE IF BinExists(roslyn_dir)
            THEN <<roslyn_dir, "csharp-language-server">>
            ELSE NoPath

CachedServerBinary(listing) ==
    /\ Sequential
    /\ cached' = [asked |-> TRUE, readable |-> listing # ReadDirError,
                  listing |-> IF listing = ReadDirError THEN <<>> ELSE listing,
                  result |-> GetCachedRoslynBinary(listing)]
    /\ UNCHANGED <<fsVars, call, lastOk>>
    /\ UNCHANGED notFetch

\* calls that run one after the other are the calls of one task
Callers == {"A"}

Next ==
    \/ \E p \in Callers, n \in Names, e \in Digests \cup {None} : Begin(p, n, e)
    \/ \E p \in Callers : ReadMetadata(p)
    \/ \E p \in Callers, ok \in BOOLEAN : ValidityCheck(p, ok)
    \/ \E p \in Callers : CheckBinary(p)
    \/ \E p \in Callers, layout \in Layouts : DownloadOk(p, layout)
    \/ \E p \in Callers, left \in Layouts \cup {"clean"} : DownloadFail(p, left)
    \/ \E p \in Callers : FindBinary(p)
    \/ \E p \in Callers : CreateDir(p)
    \/ \E p \in Callers, x \in BOOLEAN : CopyBinary(p, x)
    \/ \E p \in Callers : RemoveMatching(p)
    \/ \E p \in Callers : WriteMetadata(p)
    \/ \E p \in Callers : SpawnWarmup(p)
    \/ \E p \in Callers : WarmupRun(p)
    \/ \E p \in Callers : SetPermissions(p)
    \/ \E p \in Callers : IoError(p)
    \/ \E p \in Callers : Return(p)
    \/ \E listing \in Listings(ContainerEntries) \cup {ReadDirError} :
            CachedServerBinary(listing)

Spec == Init /\ [][Next]_vars

TypeOK ==
    /\ versionDirs \subseteq Names
    /\ \A n \in Names : binary[n].present => n \in versionDirs
    /\ \A n \in Names : metadata[n].present => n \in versionDirs

(***************************************************************************)
(* Properties of fetch_server_binary and cached_server_binary (Spec)       *)
(***************************************************************************)
Done(p) == call[p].pc = "done"

\* C1: a call that finds a cache record whose digest differs from the
\* expected digest (both present) has invoked download_server_binary by the
\* time it returns.
C1_MismatchAlwaysDownloads ==
    \A p \in Procs : (Done(p) /\ call[p].mismatch) => call[p].downloaded

\* C2 as stated: after every call that returns Ok the container directory
\* holds exactly one entry, the version directory just acquired.
C2_OneEntryAfterEveryOk ==
    \A p \in Procs :
        (Done(p) /\ call[p].result = "Ok")
            => ContainerEntries = {VersionDir(call[p].name)}

\* C2 amended: after every call that returns Ok after having downloaded and
\* installed the binary, the container directory holds exactly one entry,
\* the version directory just acquired, with its binary and cache record;
\* a call that returns Ok without downloading leaves the container
\* directory as it found it.
C2_OneEntryAfterInstall ==
    \A p \in Procs :
        /\ (Done(p) /\ call[p].result = "Ok" /\ call[p].downloaded)
            => /\ ContainerEntries = {VersionDir(call[p].name)}
               /\ binary[call[p].name].present
               /\ metadata[call[p].name].present
        /\ (Done(p) /\ call[p].result = "Ok" /\ ~call[p].downloaded)
            => FsState = call[p].before

\* an install that evicted an older version directory and a staging
\* directory left by a failed call
C2_Witness ==
    \E p \in Procs :
        /\ Done(p) /\ call[p].result = "Ok" /\ call[p].downloaded
        /\ \E n \in call[p].before.versionDirs : n # call[p].name
        /\ \E n \in Names : n # call[p].name /\ call[p].before.staging[n].present

\* the cache record read by the call holds the expected digest
RecordMatches(c) ==
    /\ c.before.metadata[c.name].present
    /\ c.expected # None
    /\ c.before.metadata[c.name].digest = c.expected

\* C3: a call that finds a cache record with the expected digest and whose
\* liveness check succeeds returns the cached binary path without
\* downloading and leaves the container as it was; a call for the version
\* that the call just before it acquired never downloads.
C3_CacheHitNoDownload ==
    \A p \in Procs :
        /\ (Done(p) /\ RecordMatches(call[p]) /\ ~call[p].livenessFailed)
            => /\ call[p].result = "Ok"
               /\ call[p].path = BinaryPath(call[p].name)
               /\ call[p].arguments = <<>> /\ call[p].env = None
               /\ ~call[p].downloaded
               /\ FsState = call[p].before
        /\ call[p].repeat => ~call[p].downloaded

\* a second acquisition right after a successful one hits the cache
C3_Witness ==
    \E p \in Procs :
        /\ Done(p) /\ RecordMatches(call[p]) /\ ~call[p].livenessFailed
        /\ call[p].repeat /\ call[p].result = "Ok"

\* C4: a call whose liveness check of the cached binary failed has
\* downloaded, and installed the binary again if it returns Ok.
C4_LivenessFailureDownloads ==
    \A p \in Procs :
        (Done(p) /\ call[p].livenessFailed)
            => /\ call[p].downloaded
               /\ call[p].result = "Ok" => call[p].installed

\* the result C7 describes for the last query: the binary of the last
\* directory of the listing if that file exists, None otherwise
C7_Described ==
    LET l == cached.listing
        D == {i \in 1..Len(l) : IsDirEntry(l[i])}
    IN IF ~cached.readable \/ D = {} THEN NoPath
       ELSE LET i == CHOOSE k \in D : \A j \in D : j <= k
            IN IF BinExists(l[i]) THEN <<l[i], "csharp-language-server">>
               ELSE NoPath

\* C7: cached_server_binary returns the binary of the last subdirectory in
\* listing order when that file exists and None otherwise, and changes
\* neither the container directory nor any call.
C7_CachedLastDir ==
    [][(cached'.asked /\ cached' # cached)
        => /\ UNCHANGED <<fsVars, call>>
           /\ cached'.result = C7_Described']_vars

\* None is returned although another subdirectory holds a binary
C7_Witness ==
    /\ cached.asked /\ cached.readable /\ cached.result = NoPath
    /\ \E i \in 1..Len(cached.listing) : BinExists(cached.listing[i])

(***************************************************************************)
(* fetch_latest_server_version (SpecLatest)                                *)
(***************************************************************************)
\* values of std::env::consts::ARCH and ::OS of the build
Archs == {"aarch64", "x86_64", "riscv64"}
Oses == {"macos", "linux", "windows", "freebsd"}

\* asset names the release index may list: <<arch, os, ext>> stands for
\* csharp-language-server-{arch}-{os}.{ext}
AssetNames ==
    {<<"aarch64", "apple-darwin", "tar.gz">>,
     <<"x86_64", "unknown-linux-gnu", "tar.gz">>,
     <<"x86_64", "pc-windows-msvc", "zip">>}

\* the releases the index may return: a tag and assets (name, digest)
Releases ==
    {[tag |-> t, assets |-> a] :
        t \in {"v1"},
        a \in UNION {[A -> {None, "d1"}] : A \in SUBSET AssetNames}}

\* match consts::ARCH
ArchStr(arch) ==
    IF arch = "aarch64" THEN "aarch64"
    ELSE IF arch = "x86_64" THEN "x86_64" ELSE None

\* match consts::OS
OsStr(os) ==
    IF os = "macos" THEN "apple-darwin"
    ELSE IF os = "linux" THEN "unknown-linux-gnu"
    ELSE IF os = "windows" THEN "pc-windows-msvc" ELSE None

Ext(os) == IF os = "windows" THEN "zip" ELSE "tar.gz"

\* format!("csharp-language-server-{}-{}.{}", arch_str, os_str, ext)
AssetName(arch, os) == <<ArchStr(arch), OsStr(os), Ext(os)>>

InitLatest ==
    /\ latest \in {[NoLatest EXCEPT !.pc = "release", !.arch = a, !.os = o,
                                    !.pre_release = pr] :
                        a \in Archs, o \in Oses, pr \in BOOLEAN}
    /\ versionDirs = {}
    /\ staging = [n \in Names |-> NoStaging]
    /\ binary = [n \in Names |-> NoBinary]
    /\ metadata = [n \in Names |-> NoMetadata]
    /\ stray = FALSE
    /\ call = [p \in Procs |-> IdleCall]
    /\ cached = NoQuery
    /\ lastOk = NoCall
    /\ tree = NoTree
    /\ find = NoFind
    /\ output = <<>> /\ property = <<>> /\ parse = NoParse

\* latest_github_release(..).await? answers with a release
LatestGithubRelease(r) ==
    /\ latest.pc = "release"
    /\ latest' = [latest EXCEPT !.queries = @ + 1, !.tag = r.tag,
                                !.assets = r.assets, !.pc = "arch"]
    /\ UNCHANGED <<fetchVars, findVars, parseVars>>

\* latest_github_release(..).await? fails
LatestGithubReleaseFails ==
    /\ latest.pc = "release"
    /\ latest' = [latest EXCEPT !.queries = @ + 1, !.pc = "done",
                                !.err = "release index"]
    /\ UNCHANGED <<fetchVars, findVars, parseVars>>

MatchArch ==
    /\ latest.pc = "arch"
    /\ latest' = IF ArchStr(latest.arch) = None
                 THEN [latest EXCEPT !.pc = "done", !.err = "unsupported architecture"]
                 ELSE [latest EXCEPT !.pc = "os"]
    /\ UNCHANGED <<fetchVars, findVars, parseVars>>

MatchOs ==
    /\ latest.pc = "os"
    /\ latest' = IF OsStr(latest.os) = None
                 THEN [latest EXCEPT !.pc = "done", !.err = "unsupported os"]
                 ELSE [latest EXCEPT !.pc = "asset"]
    /\ UNCHANGED <<fetchVars, findVars, parseVars>>

\* release.assets.iter().find(|asset| asset.name == asset_name)
FindAsset ==
    /\ latest.pc = "asset"
    /\ LET asset_name == AssetName(latest.arch, latest.os)
       IN latest' =
            IF asset_name \in DOMAIN latest.assets
            THEN [latest EXCEPT !.pc = "done", !.err = "none",
                    !.version = latest.tag]
            ELSE [latest EXCEPT !.pc = "done", !.err = "no asset found"]
    /\ UNCHANGED <<fetchVars, findVars, parseVars>>

NextLatest ==
    \/ \E r \in Releases : LatestGithubRelease(r)
    \/ LatestGithubReleaseFails
    \/ MatchArch
    \/ MatchOs
    \/ FindAsset

SpecLatest == InitLatest /\ [][NextLatest]_vars

\* C5: a fetch_latest_server_version call that ends with the
\* unsupported-platform error has made no release-index query.
C5_UnsupportedFailsBeforeQuery ==
    (latest.pc = "done"
        /\ latest.err \in {"unsupported architecture", "unsupported os"})
        => latest.queries = 0

(***************************************************************************)
(* find_binary_in_dir (SpecFind)                                           *)
(***************************************************************************)
\* the largest number of entries below the root of a tree
MaxNodes == 4

\* the file name looked for, and another name
Target == "csharp-language-server"
FileNames == {Target, "other"}

\* node 0 is the directory `dir`; node i > 0 is an entry of its parent
Children(t, d) == {i \in DOMAIN t : t[i].parent = d}

IsTree(t) ==
    /\ \A i \in DOMAIN t :
        /\ t[i].parent < i
        /\ t[i].parent = 0 \/ t[t[i].parent].kind = "dir"
    /\ \A i, j \in DOMAIN t :
        (i # j /\ t[i].parent = t[j].parent) => t[i].name # t[j].name

Trees ==
    UNION {{t \in [1..n -> [parent : 0..(MaxNodes - 1), kind : {"dir", "file"},
                            name : FileNames]] : IsTree(t)} : n \in 0..MaxNodes}

InitFind ==
    /\ tree \in Trees
    /\ find = [NoFind EXCEPT !.pc = "quick"]
    /\ latest = NoLatest
    /\ versionDirs = {}
    /\ staging = [n \in Names |-> NoStaging]
    /\ binary = [n \in Names |-> NoBinary]
    /\ metadata = [n \in Names |-> NoMetadata]
    /\ stray = FALSE
    /\ call = [p \in Procs |-> IdleCall]
    /\ cached = NoQuery
    /\ lastOk = NoCall
    /\ output = <<>> /\ property = <<>> /\ parse = NoParse

\* fs::metadata(&dir.join(filename)).await.is_ok(): some entry of that name
\* lies directly in dir, whatever its type
QuickCheck ==
    /\ find.pc = "quick"
    /\ LET c == {i \in Children(tree, 0) : tree[i].name = Target}
       IN find' = IF c # {}
                  THEN [find EXCEPT !.pc = "done", !.result = "Ok",
                                    !.path = CHOOSE i \in c : TRUE]
                  ELSE [find EXCEPT !.pc = "pop", !.stack = <<0>>]
    /\ UNCHANGED <<tree, fetchVars, latestVars, parseVars>>

\* while let Some(path) = stack.pop() { entries = fs::read_dir(&path) ..
PopDir ==
    /\ find.pc = "pop" /\ find.stack # <<>>
    /\ LET d == find.stack[Len(find.stack)]
       IN find' = [find EXCEPT !.pc = "entries", !.dir = d,
                        !.stack = SubSeq(@, 1, Len(@) - 1),
                        !.pending = Children(tree, d)]
    /\ UNCHANGED <<tree, fetchVars, latestVars, parseVars>>

\* entries.next(): read_dir yields the entries in any order
VisitEntry(e) ==
    /\ find.pc = "entries" /\ e \in find.pending
    /\ find' = IF tree[e].kind = "dir"
               THEN [find EXCEPT !.stack = Append(@, e), !.pending = @ \ {e}]
               ELSE IF tree[e].kind = "file" /\ tree[e].name = Target
                    THEN [find EXCEPT !.pc = "done", !.result = "Ok", !.path = e,
                                      !.pending = {}]
                    ELSE [find EXCEPT !.pending = @ \ {e}]
    /\ UNCHANGED <<tree, fetchVars, latestVars, parseVars>>

\* entries.next() returns None
EndOfDir ==
    /\ find.pc = "entries" /\ find.pending = {}
    /\ find' = [find EXCEPT !.pc = "pop"]
    /\ UNCHANGED <<tree, fetchVars, latestVars, parseVars>>

\* bail!("failed to find {filename} in extracted archive {dir:?}")
NotFound ==
    /\ find.pc = "pop" /\ find.stack = <<>>
    /\ find' = [find EXCEPT !.pc = "done", !.result = "Err"]
    /\ UNCHANGED <<tree, fetchVars, latestVars, parseVars>>

NextFind ==
    \/ QuickCheck
    \/ PopDir
    \/ \E e \in DOMAIN tree : VisitEntry(e)
    \/ EndOfDir
    \/ NotFound

SpecFind == InitFind /\ [][NextFind]_vars

\* the regular files of the requested name, at any depth
TargetFiles == {i \in DOMAIN tree : tree[i].kind = "file" /\ tree[i].name = Target}

\* C6: find_binary_in_dir returns Ok with the path of a regular file of the
\* requested name when the tree holds one, and an error when it holds none.
C6_FindsRegularFile ==
    find.pc = "done"
        => IF TargetFiles # {}
           THEN find.result = "Ok" /\ find.path \in TargetFiles
           ELSE find.result = "Err"

(***************************************************************************)
(* Strings are sequences of characters; the str methods the parser uses.   *)
(***************************************************************************)
UpperCase == <<"A", "B", "C", "D", "E", "F", "G", "H", "I", "J", "K", "L", "M", "N", "O", "P", "Q", "R", "S", "T", "U", "V", "W", "X", "Y", "Z">>
LowerCase == <<"a", "b", "c", "d", "e", "f", "g", "h", "i", "j", "k", "l", "m", "n", "o", "p", "q", "r", "s", "t", "u", "v", "w", "x", "y", "z">>

\* char::to_lowercase
LowerChar(c) ==
    IF \E i \in 1..Len(UpperCase) : UpperCase[i] = c
    THEN LowerCase[CHOOSE i \in 1..Len(UpperCase) : UpperCase[i] = c]
    ELSE c

\* str::to_lowercase
ToLower(s) == [i \in 1..Len(s) |-> LowerChar(s[i])]

\* char::is_whitespace
IsWhitespace(c) == c \in {" ", "\n", "\r", "\t"}

\* str::trim_end_matches(pred): a run of matching characters is removed
RECURSIVE TrimEndMatches(_, _)
TrimEndMatches(s, chars) ==
    IF s # <<>> /\ s[Len(s)] \in chars
    THEN TrimEndMatches(SubSeq(s, 1, Len(s) - 1), chars)
    ELSE s

RECURSIVE TrimStart(_)
TrimStart(s) ==
    IF s # <<>> /\ IsWhitespace(s[1]) THEN TrimStart(Tail(s)) ELSE s

\* str::trim
Trim(s) == TrimStart(TrimEndMatches(s, {" ", "\n", "\r", "\t"}))

\* the positions of character c in s
Positions(s, c) == {i \in 1..Len(s) : s[i] = c}
Min(S) == CHOOSE i \in S : \A j \in S : i <= j

\* str::split_once(c): the text after the first c (asked only if c occurs)
AfterFirst(s, c) == SubSeq(s, Min(Positions(s, c)) + 1, Len(s))

\* str::contains(&str)
Contains(s, sub) ==
    \E i \in 0..(Len(s) - Len(sub)) : SubSeq(s, i + 1, i + Len(sub)) = sub

\* the pieces of s between the occurrences of the characters in seps
RECURSIVE Split(_, _, _)
Split(s, seps, cur) ==
    IF s = <<>> THEN <<cur>>
    ELSE IF s[1] \in seps THEN <<cur>> \o Split(Tail(s), seps, <<>>)
         ELSE Split(Tail(s), seps, Append(cur, s[1]))

\* str::lines: split at \n, a final empty piece is no line, and a \r
\* before the \n is not part of the line
Lines(s) ==
    LET pieces == Split(s, {"\n"}, <<>>)
        kept == IF pieces[Len(pieces)] = <<>>
                THEN SubSeq(pieces, 1, Len(pieces) - 1) ELSE pieces
        strip(l) == IF l # <<>> /\ l[Len(l)] = "\r"
                    THEN SubSeq(l, 1, Len(l) - 1) ELSE l
    IN [i \in 1..Len(kept) |-> strip(kept[i])]

\* str::split_whitespace: the non-empty pieces between whitespace
SplitWhitespace(s) ==
    SelectSeq(Split(s, {" ", "\n", "\r", "\t"}, <<>>), LAMBDA t : t # <<>>)

(***************************************************************************)
(* serde_json::from_str::<Value>, Value::get and Value::to_string, for     *)
(* JSON texts without escape sequences, signs, fractions and exponents.    *)
(***************************************************************************)
JStr(x) == [t |-> "str", s |-> x, m |-> <<>>]
JNum(x) == [t |-> "num", s |-> x, m |-> <<>>]
JLit(x) == [t |-> "lit", s |-> x, m |-> <<>>]
JObj(m) == [t |-> "obj", s |-> <<>>, m |-> m]
JArr(m) == [t |-> "arr", s |-> <<>>, m |-> m]

JsonFail == [ok |-> FALSE, val |-> JLit(<<>>), pos |-> 0]
JsonOk(v, next) == [ok |-> TRUE, val |-> v, pos |-> next]

DigitChars == {"0", "1", "2", "3", "4", "5", "6", "7", "8", "9"}
JsonLiterals == {<<"t", "r", "u", "e">>, <<"f", "a", "l", "s", "e">>, <<"n", "u", "l", "l">>}

RECURSIVE SkipWs(_, _)
SkipWs(s, i) ==
    IF i <= Len(s) /\ s[i] \in {" ", "\n", "\r", "\t"} THEN SkipWs(s, i + 1) ELSE i

\* a string literal starting at the quote s[i]; a raw control character
\* inside it is an error
ParseStringAt(s, i) ==
    LET closing == {j \in (i + 1)..Len(s) : s[j] = "\""}
    IN IF closing = {} THEN JsonFail
       ELSE LET j == Min(closing)
                content == SubSeq(s, i + 1, j - 1)
            IN IF \E k \in 1..Len(content) : content[k] \in {"\n", "\r", "\t"}
               THEN JsonFail
               ELSE JsonOk(JStr(content), j + 1)

RECURSIVE DigitsEnd(_, _)
DigitsEnd(s, i) ==
    IF i <= Len(s) /\ s[i] \in DigitChars THEN DigitsEnd(s, i + 1) ELSE i

\* an integer starting at the digit s[i]; after a leading 0 the number ends
ParseNumberAt(s, i) ==
    IF s[i] = "0" THEN JsonOk(JNum(<<"0">>), i + 1)
    ELSE JsonOk(JNum(SubSeq(s, i, DigitsEnd(s, i) - 1)), DigitsEnd(s, i))

ParseLiteralAt(s, i) ==
    LET fits == {l \in JsonLiterals :
                    i + Len(l) - 1 <= Len(s) /\ SubSeq(s, i, i + Len(l) - 1) = l}
    IN IF fits = {} THEN JsonFail
       ELSE LET l == CHOOSE x \in fits : TRUE
            IN JsonOk(JLit(l), i + Len(l))

\* Map::insert: a key already present keeps its place and gets the value
MapInsert(m, k, v) ==
    IF \E i \in 1..Len(m) : m[i].k = k
    THEN [i \in 1..Len(m) |-> IF m[i].k = k THEN [k |-> k, v |-> v] ELSE m[i]]
    ELSE Append(m, [k |-> k, v |-> v])

RECURSIVE ParseValue(_, _)
RECURSIVE ParseMembers(_, _, _)
RECURSIVE ParseElements(_, _, _)

\* the members of an object from s[i] on, the opening brace consumed
ParseMembers(s, i, acc) ==
    IF i > Len(s) \/ s[i] # "\"" THEN JsonFail
    ELSE LET key == ParseStringAt(s, i)
         IN IF ~key.ok THEN JsonFail
            ELSE LET c == SkipWs(s, key.pos)
                 IN IF c > Len(s) \/ s[c] # ":" THEN JsonFail
                    ELSE LET v == ParseValue(s, SkipWs(s, c + 1))
                         IN IF ~v.ok THEN JsonFail
                            ELSE LET n == SkipWs(s, v.pos)
                                     m == MapInsert(acc, key.val.s, v.val)
                                 IN IF n > Len(s) THEN JsonFail
                                    ELSE IF s[n] = "," THEN ParseMembers(s, SkipWs(s, n + 1), m)
                                    ELSE IF s[n] = "}" THEN JsonOk(JObj(m), n + 1)
                                    ELSE JsonFail

\* the elements of an array from s[i] on, the opening bracket consumed
ParseElements(s, i, acc) ==
    LET v == ParseValue(s, i)
    IN IF ~v.ok THEN JsonFail
       ELSE LET n == SkipWs(s, v.pos)
                m == Append(acc, [k |-> <<>>, v |-> v.val])
            IN IF n > Len(s) THEN JsonFail
               ELSE IF s[n] = "," THEN ParseElements(s, SkipWs(s, n + 1), m)
               ELSE IF s[n] = "]" THEN JsonOk(JArr(m), n + 1)
               ELSE JsonFail

\* the value starting at s[i], whitespace skipped
ParseValue(s, i) ==
    IF i > Len(s) THEN JsonFail
    ELSE IF s[i] = "\"" THEN ParseStringAt(s, i)
    ELSE IF s[i] \in DigitChars THEN ParseNumberAt(s, i)
    ELSE IF s[i] = "{"
         THEN LET j == SkipWs(s, i + 1)
              IN IF j <= Len(s) /\ s[j] = "}" THEN JsonOk(JObj(<<>>), j + 1)
                 ELSE ParseMembers(s, j, <<>>)
    ELSE IF s[i] = "["
         THEN LET j == SkipWs(s, i + 1)
              IN IF j <= Len(s) /\ s[j] = "]" THEN JsonOk(JArr(<<>>), j + 1)
                 ELSE ParseElements(s, j, <<>>)
    ELSE ParseLiteralAt(s, i)

\* serde_json::from_str: one value, whitespace around it, nothing after it
FromStr(s) ==
    LET v == ParseValue(s, SkipWs(s, 1))
    IN IF v.ok /\ SkipWs(s, v.pos) = Len(s) + 1 THEN v ELSE JsonFail

\* Value::get(&str): the member of an object, None for any other value
JsonGet(v, key) ==
    IF v.t = "obj" /\ \E i \in 1..Len(v.m) : v.m[i].k = key
    THEN [found |-> TRUE, val |-> v.m[CHOOSE i \in 1..Len(v.m) : v.m[i].k = key].v]
    ELSE [found |-> FALSE, val |-> JLit(<<>>)]

RECURSIVE Join(_, _)
Join(parts, sep) ==
    IF parts = <<>> THEN <<>>
    ELSE IF Len(parts) = 1 THEN parts[1]
    ELSE parts[1] \o sep \o Join(Tail(parts), sep)

\* Value::to_string: the compact JSON text
RECURSIVE ValueToString(_)
ValueToString(v) ==
    IF v.t = "str" THEN <<"\"">> \o v.s \o <<"\"">>
    ELSE IF v.t = "obj"
         THEN <<"{">> \o Join([i \in 1..Len(v.m) |->
                    <<"\"">> \o v.m[i].k \o <<"\"", ":">> \o ValueToString(v.m[i].v)],
                    <<",">>) \o <<"}">>
    ELSE IF v.t = "arr"
         THEN <<"[">> \o Join([i \in 1..Len(v.m) |-> ValueToString(v.m[i].v)], <<",">>)
                \o <<"]">>
    ELSE v.s

(***************************************************************************)
(* parse_msbuild_property_output (SpecParse)                               *)
(***************************************************************************)
S_Properties == <<"P", "r", "o", "p", "e", "r", "t", "i", "e", "s">>

\* lines 632-642
\* a single trailing character is removed instead of the whole run
sanitize_property_value_OneChar(s0) ==
    LET s1 == Trim(s0)
        s2 == IF s1 # <<>> /\ s1[Len(s1)] \in {",", "}", "]"}
              THEN SubSeq(s1, 1, Len(s1) - 1) ELSE s1
        s3 == Trim(s2)
        s4 == IF s3 # <<>> /\ s3[1] = "\"" /\ s3[Len(s3)] = "\"" /\ Len(s3) >= 2
              THEN SubSeq(s3, 2, Len(s3) - 1) ELSE s3
    IN Trim(s4)

sanitize_property_value(s0) ==
    LET s1 == Trim(s0)
        s2 == TrimEndMatches(s1, {",", "}", "]", " ", "\n", "\r", "\t"})
        s3 == Trim(s2)
        s4 == IF s3 # <<>> /\ s3[1] = "\"" /\ s3[Len(s3)] = "\"" /\ Len(s3) >= 2
              THEN SubSeq(s3, 2, Len(s3) - 1) ELSE s3
    IN Trim(s4)

\* string values of the JSON object are sanitized like the line values
JsonStrategy_Sanitized(out, prop) ==
    LET json == FromStr(out)
    IN IF ~json.ok THEN NoneStr
       ELSE LET props == JsonGet(json.val, S_Properties)
            IN IF ~props.found THEN NoneStr
               ELSE LET val == JsonGet(props.val, prop)
                    IN IF ~val.found THEN NoneStr
                       ELSE IF val.val.t = "str"
                            THEN Some(sanitize_property_value(val.val.s))
                       ELSE Some(ValueToString(val.val))

\* lines 619-629: the property read from the JSON `Properties` object
JsonStrategy(out, prop) ==
    LET json == FromStr(out)
    IN IF ~json.ok THEN NoneStr
       ELSE LET props == JsonGet(json.val, S_Properties)
            IN IF ~props.found THEN NoneStr
               ELSE LET val == JsonGet(props.val, prop)
                    IN IF ~val.found THEN NoneStr
                       ELSE IF val.val.t = "str" THEN Some(val.val.s)
                       ELSE Some(ValueToString(val.val))

\* the colon is looked for before the equals sign
LineValue_ColonFirst(line, prop_lower) ==
    IF Positions(line, ":") # {} THEN sanitize_property_value(AfterFirst(line, ":"))
    ELSE IF Positions(line, "=") # {}
         THEN sanitize_property_value(AfterFirst(line, "="))
    ELSE sanitize_property_value(line)

\* lines 654-676: the value taken from a line that mentions the property
LineValue(line, prop_lower) ==
    IF Positions(line, "=") # {} THEN sanitize_property_value(AfterFirst(line, "="))
    ELSE IF Positions(line, ":") # {}
         THEN sanitize_property_value(AfterFirst(line, ":"))
    ELSE LET tokens == SplitWhitespace(line)
             hits == {i \in 1..Len(tokens) : Contains(ToLower(tokens[i]), prop_lower)}
         IN IF Len(tokens) >= 2 /\ hits # {} /\ Min(hits) + 1 <= Len(tokens)
            THEN sanitize_property_value(tokens[Min(hits) + 1])
            ELSE sanitize_property_value(line)

\* lines 644-678: the loop over the lines of the output
RECURSIVE ScanLines(_, _)
ScanLines(lines, prop_lower) ==
    IF lines = <<>> THEN NoneStr
    ELSE LET line == Trim(Head(lines))
         IN IF line = <<>> THEN ScanLines(Tail(lines), prop_lower)
            ELSE IF Contains(ToLower(line), prop_lower)
                 THEN Some(LineValue(line, prop_lower))
            ELSE ScanLines(Tail(lines), prop_lower)

LineStrategy(out, prop) == ScanLines(Lines(out), ToLower(prop))

\* the first token is returned however many tokens the line has
SingleTokenStrategy_AnyTokens(out) ==
    LET trimmed == [i \in 1..Len(Lines(out)) |-> Trim(Lines(out)[i])]
        non_empty == SelectSeq(trimmed, LAMBDA l : l # <<>>)
    IN IF Len(non_empty) = 1
       THEN Some(sanitize_property_value(SplitWhitespace(non_empty[1])[1]))
       ELSE NoneStr

\* lines 680-690: the whole output is a single token
SingleTokenStrategy(out) ==
    LET trimmed == [i \in 1..Len(Lines(out)) |-> Trim(Lines(out)[i])]
        non_empty == SelectSeq(trimmed, LAMBDA l : l # <<>>)
    IN IF Len(non_empty) = 1 /\ Len(SplitWhitespace(non_empty[1])) = 1
       THEN Some(sanitize_property_value(non_empty[1]))
       ELSE NoneStr

S_OutputType == <<"O", "u", "t", "p", "u", "t", "T", "y", "p", "e">>
S_outputtype == <<"o", "u", "t", "p", "u", "t", "t", "y", "p", "e">>
S_IsTestProject == <<"I", "s", "T", "e", "s", "t", "P", "r", "o", "j", "e", "c", "t">>

\* the properties asked for (msbuild_get_properties is called with
\* OutputType and IsTestProject; the name also occurs in another case)
PropertyNames == {S_OutputType, S_outputtype, S_IsTestProject}

\* the largest number of pieces a line-oriented output is made of
MaxPieces == 4

\* the pieces line-oriented outputs are made of
TextPieces ==
    {<<"O", "u", "t", "p", "u", "t", "T", "y", "p", "e">>,
     <<"E", "x", "e">>,
     <<"=">>,
     <<":">>,
     <<" ">>,
     <<"\n">>,
     <<"\"">>,
     <<",">>}

RECURSIVE Concats(_)
Concats(n) ==
    IF n = 0 THEN {<<>>}
    ELSE Concats(n - 1) \cup {t \o p : t \in Concats(n - 1), p \in TextPieces}

TextOutputs == Concats(MaxPieces)

\* the outputs of the unit tests (lines 697-773) and a few more
TestOutputs ==
    {<<"O", "u", "t", "p", "u", "t", "T", "y", "p", "e", " ", "=", " ", "E", "x", "e", "\n">>,
     <<"O", "u", "t", "p", "u", "t", "T", "y", "p", "e", ":", " ", "E", "x", "e", "\n">>,
     <<"E", "x", "e", "\n">>,
     <<" ", " ", " ", "E", "x", "e", " ", " ", " ", "\n">>,
     <<"P", "r", "o", "p", "e", "r", "t", "y", " ", "O", "u", "t", "p", "u", "t", "T", "y", "p", "e", ":", " ", "E", "x", "e", "\n">>,
     <<"S", "o", "m", "e", " ", "n", "o", "i", "s", "e", "\n">>,
     <<"{", "\n", " ", " ", "\"", "P", "r", "o", "p", "e", "r", "t", "i", "e", "s", "\"", ":", " ", "{", "\n", " ", " ", " ", " ", "\"", "I", "s", "T", "e", "s", "t", "P", "r", "o", "j", "e", "c", "t", "\"", ":", " ", "\"", "\"", ",", "\n", " ", " ", " ", " ", "\"", "O", "u", "t", "p", "u", "t", "T", "y", "p", "e", "\"", ":", " ", "\"", "E", "x", "e", "\"", "\n", " ", " ", "}", "\n", "}">>,
     <<"I", "s", "T", "e", "s", "t", "P", "r", "o", "j", "e", "c", "t", " ", "=", " ", "t", "r", "u", "e", "\n">>,
     <<"{", "\"", "P", "r", "o", "p", "e", "r", "t", "i", "e", "s", "\"", ":", "{", "}", "}">>,
     <<"{", "\"", "P", "r", "o", "p", "e", "r", "t", "i", "e", "s", "\"", ":", "1", "}">>,
     <<"{", "}">>,
     <<"x", "\r", "\n", "O", "u", "t", "p", "u", "t", "T", "y", "p", "e", "=", "\"", "\"", ",", "\r", "\n">>,
     <<"O", "u", "t", "p", "u", "t", "T", "y", "p", "e", " ", "E", "x", "e", "\n">>}

\* members of a JSON object, as text
JsonMembers ==
    {<<"\"", "O", "u", "t", "p", "u", "t", "T", "y", "p", "e", "\"", ":", "\"", "E", "x", "e", "\"">>,
     <<"\"", "O", "u", "t", "p", "u", "t", "T", "y", "p", "e", "\"", ":", "\"", "a", "=", "b", "\"">>,
     <<"\"", "O", "u", "t", "p", "u", "t", "T", "y", "p", "e", "\"", ":", "\"", " ", "x", " ", "\"">>,
     <<"\"", "O", "u", "t", "p", "u", "t", "T", "y", "p", "e", "\"", ":", "\"", "\"">>,
     <<"\"", "O", "u", "t", "p", "u", "t", "T", "y", "p", "e", "\"", ":", "1">>,
     <<"\"", "O", "u", "t", "p", "u", "t", "T", "y", "p", "e", "\"", ":", "{", "\"", "a", "\"", ":", "[", "1", ",", "t", "r", "u", "e", "]", "}">>,
     <<"\"", "O", "u", "t", "p", "u", "t", "T", "y", "p", "e", "\"", ":", " ", "n", "u", "l", "l">>,
     <<"\"", "I", "s", "T", "e", "s", "t", "P", "r", "o", "j", "e", "c", "t", "\"", ":", "\"", "\"">>,
     <<"\"", "o", "u", "t", "p", "u", "t", "t", "y", "p", "e", "\"", ":", "\"", "d", "l", "l", "\"">>}

\* members that may follow another member
JsonSecondMembers ==
    {<<"\"", "O", "u", "t", "p", "u", "t", "T", "y", "p", "e", "\"", ":", "\"", "D", "l", "l", "\"">>,
     <<"\"", "I", "s", "T", "e", "s", "t", "P", "r", "o", "j", "e", "c", "t", "\"", ":", "\"", "t", "r", "u", "e", "\"">>}

JsonMemberLists ==
    JsonMembers
        \cup {a \o sep \o b : a \in JsonMembers, b \in JsonSecondMembers,
                               sep \in {<<",">>, <<",", "\n", " ">>}}

\* what is put around a member list: JSON documents with a Properties
\* object, and texts that are no such document
JsonWrappers ==
    {<<<<"{", "\"", "P", "r", "o", "p", "e", "r", "t", "i", "e", "s", "\"", ":", "{">>, <<"}", "}">>>>,
     <<<<"{", "\n", " ", "\"", "P", "r", "o", "p", "e", "r", "t", "i", "e", "s", "\"", ":", " ", "{", "\n", " ", " ">>, <<"\n", " ", "}", "\n", "}">>>>,
     <<<<" ", "{", "\"", "P", "r", "o", "p", "e", "r", "t", "i", "e", "s", "\"", ":", "{">>, <<"}", "}", " ", "\n">>>>,
     <<<<"{", "\"", "P", "r", "o", "p", "e", "r", "t", "i", "e", "s", "\"", ":", "{">>, <<"}", "}", " ", "x">>>>,
     <<<<"{", "\"", "P", "r", "o", "p", "e", "r", "t", "i", "e", "s", "\"", ":", "{">>, <<"}">>>>,
     <<<<"{", "\"", "O", "t", "h", "e", "r", "\"", ":", "{">>, <<"}", "}">>>>,
     <<<<"{", "\"", "P", "r", "o", "p", "e", "r", "t", "i", "e", "s", "\"", ":", "[", "{">>, <<"}", "]", "}">>>>,
     <<<<"[", "{", "\"", "P", "r", "o", "p", "e", "r", "t", "i", "e", "s", "\"", ":", "{">>, <<"}", "}", "]">>>>}

JsonOutputs == {w[1] \o m \o w[2] : w \in JsonWrappers, m \in JsonMemberLists}

Outputs == TextOutputs \cup TestOutputs \cup JsonOutputs

InitParse ==
    /\ output \in Outputs
    /\ property \in PropertyNames
    /\ parse = [NoParse EXCEPT !.pc = "json"]
    /\ latest = NoLatest
    /\ tree = NoTree
    /\ find = NoFind
    /\ versionDirs = {}
    /\ staging = [n \in Names |-> NoStaging]
    /\ binary = [n \in Names |-> NoBinary]
    /\ metadata = [n \in Names |-> NoMetadata]
    /\ stray = FALSE
    /\ call = [p \in Procs |-> IdleCall]
    /\ cached = NoQuery
    /\ lastOk = NoCall

\* a strategy returns its value, or the next one is tried
Try(r, by, next) ==
    IF r.some THEN [parse EXCEPT !.pc = "insert", !.by = by, !.result = r]
    ELSE [parse EXCEPT !.pc = next]

JsonStep ==
    /\ parse.pc = "json"
    /\ parse' = Try(JsonStrategy(output, property), "json", "lines")
    /\ UNCHANGED <<output, property, fetchVars, latestVars, findVars>>

LinesStep ==
    /\ parse.pc = "lines"
    /\ parse' = Try(LineStrategy(output, property), "lines", "single")
    /\ UNCHANGED <<output, property, fetchVars, latestVars, findVars>>

SingleTokenStep ==
    /\ parse.pc = "single"
    /\ parse' = Try(SingleTokenStrategy(output), "single", "insert")
    /\ UNCHANGED <<output, property, fetchVars, latestVars, findVars>>

\* msbuild_get_properties, lines 594-598: map.insert(prop, val) if Some
InsertProperty ==
    /\ parse.pc = "insert"
    /\ parse' = [parse EXCEPT !.pc = "done",
                    !.map = IF parse.result.some
                            THEN {<<property, parse.result.val>>} ELSE {}]
    /\ UNCHANGED <<output, property, fetchVars, latestVars, findVars>>

NextParse ==
    \/ JsonStep
    \/ LinesStep
    \/ SingleTokenStep
    \/ InsertProperty

SpecParse == InitParse /\ [][NextParse]_vars

(***************************************************************************)
(* Properties of parse_msbuild_property_output (SpecParse)                 *)
(***************************************************************************)
Parsed == parse.pc \in {"insert", "done"}

\* the whole output is a JSON document with a `Properties` object that
\* has the requested property
HasJsonProperty ==
    /\ FromStr(output).ok
    /\ JsonGet(FromStr(output).val, S_Properties).found
    /\ JsonGet(FromStr(output).val, S_Properties).val.t = "obj"
    /\ JsonGet(JsonGet(FromStr(output).val, S_Properties).val, property).found

JsonEntry == JsonGet(JsonGet(FromStr(output).val, S_Properties).val, property).val

\* C8: when the whole output is JSON with a Properties object holding the
\* property, the result is that entry, a string as stored and any other
\* value as its JSON text, and it is the JSON strategy that returns it.
C8_JsonEntryReturned ==
    (Parsed /\ HasJsonProperty)
        => /\ parse.by = "json"
           /\ parse.result =
                IF JsonEntry.t = "str" THEN Some(JsonEntry.s)
                ELSE Some(ValueToString(JsonEntry))

\* a JSON string entry that the line strategies would have changed
C8_Witness ==
    /\ parse.pc = "done" /\ HasJsonProperty /\ JsonEntry.t = "str"
    /\ parse.result.val # sanitize_property_value(parse.result.val)
    /\ LineStrategy(output, property) # parse.result

\* the indices of the non-empty lines that contain the property name,
\* compared case-insensitively
MentioningLines ==
    {i \in 1..Len(Lines(output)) :
        /\ Trim(Lines(output)[i]) # <<>>
        /\ Contains(ToLower(Lines(output)[i]), ToLower(property))}

FirstMention == Lines(output)[Min(MentioningLines)]

S_Exe == <<"E", "x", "e">>

\* C9: when the JSON strategy returns nothing, the first non-empty line
\* that contains the property name (case-insensitively) decides: the result
\* is the sanitized text after its first '=', or without '=' the sanitized
\* text after its first ':'; the three outputs named yield Exe.
C9_FirstMentionDecides ==
    /\ (Parsed /\ ~JsonStrategy(output, property).some /\ MentioningLines # {})
        => /\ parse.by = "lines"
           /\ Positions(FirstMention, "=") # {}
                => parse.result =
                    Some(sanitize_property_value(AfterFirst(FirstMention, "=")))
           /\ (Positions(FirstMention, "=") = {} /\ Positions(FirstMention, ":") # {})
                => parse.result =
                    Some(sanitize_property_value(AfterFirst(FirstMention, ":")))
    /\ (Parsed /\ property = S_outputtype
            /\ output \in {<<"O", "u", "t", "p", "u", "t", "T", "y", "p", "e", " ", "=", " ", "E", "x", "e", "\n">>,
                           <<"O", "u", "t", "p", "u", "t", "T", "y", "p", "e", ":", " ", "E", "x", "e", "\n">>,
                           <<"P", "r", "o", "p", "e", "r", "t", "y", " ", "O", "u", "t", "p", "u", "t", "T", "y", "p", "e", ":", " ", "E", "x", "e", "\n">>})
        => parse.result = Some(S_Exe)

\* the deciding line has a ':' before its '=', is not the first line, and
\* the name is asked for in another case
C9_Witness ==
    /\ parse.pc = "done" /\ parse.by = "lines" /\ property = S_outputtype
    /\ MentioningLines # {} /\ Min(MentioningLines) > 1
    /\ Positions(FirstMention, "=") # {} /\ Positions(FirstMention, ":") # {}
    /\ Min(Positions(FirstMention, ":")) < Min(Positions(FirstMention, "="))

\* the indices of the non-empty lines of the output
NonEmptyLines == {i \in 1..Len(Lines(output)) : Trim(Lines(output)[i]) # <<>>}

\* the output is one non-empty line made of one token
IsSingleToken ==
    /\ Cardinality(NonEmptyLines) = 1
    /\ Len(SplitWhitespace(Lines(output)[Min(NonEmptyLines)])) = 1

\* C10: when the JSON strategy returns nothing and no line contains the
\* property name, the result is the sanitized token of a single-token
\* output and None for any other output, and None leaves the property out
\* of the mapping.
C10_SingleTokenOrNone ==
    (Parsed /\ ~JsonStrategy(output, property).some
        /\ \A i \in 1..Len(Lines(output)) :
                ~Contains(ToLower(Lines(output)[i]), ToLower(property)))
        => /\ IsSingleToken
                => parse.result = Some(sanitize_property_value(
                        SplitWhitespace(Lines(output)[Min(NonEmptyLines)])[1]))
           /\ ~IsSingleToken => parse.result = NoneStr
           /\ parse.pc = "done"
                => parse.map = IF parse.result.some
                               THEN {<<property, parse.result.val>>} ELSE {}

\* a bare token between blank lines is returned
C10_Witness ==
    /\ parse.pc = "done" /\ parse.by = "single"
    /\ Len(Lines(output)) > 1 /\ parse.result.val # <<>>
    /\ parse.map = {<<property, parse.result.val>>}

(***************************************************************************)
(* Post-install steps of fetch_server_binary (Spec)                        *)
(***************************************************************************)
\* C11: on the download path the cache record is persisted, then the binary
\* is made executable, and only then the warm-up invocation is started: the
\* warm-up process is never launched before set_permissions has been applied,
\* and never on a binary that is not executable.
C11_WarmupAfterPermissions ==
    \A p \in Procs :
        /\ call[p].warmup \in {"exec", "noexec"} =>
                /\ metadata[call[p].name].present
                /\ call[p].installed
        /\ call[p].warmup # "noexec"

(***************************************************************************)
(* sanitize_property_value on its own (SpecSanitize): `output` holds the   *)
(* crude value handed to the helper, `parse.result` what it returns        *)
(***************************************************************************)
MaxChars == 5
SanChars == {" ", "\"", ",", "}", "]", "x"}
CrudeValues == UNION {[1..n -> SanChars] : n \in 0..MaxChars}

InitSanitize ==
    /\ output \in CrudeValues
    /\ property = <<>>
    /\ parse = [NoParse EXCEPT !.pc = "sanitize"]
    /\ latest = NoLatest
    /\ tree = NoTree
    /\ find = NoFind
    /\ versionDirs = {}
    /\ staging = [n \in Names |-> NoStaging]
    /\ binary = [n \in Names |-> NoBinary]
    /\ metadata = [n \in Names |-> NoMetadata]
    /\ stray = FALSE
    /\ call = [p \in Procs |-> IdleCall]
    /\ cached = NoQuery
    /\ lastOk = NoCall

SanitizeStep ==
    /\ parse.pc = "sanitize"
    /\ parse' = [parse EXCEPT !.pc = "done", !.by = "sanitize",
                              !.result = Some(sanitize_property_value(output))]
    /\ UNCHANGED <<output, property, fetchVars, latestVars, findVars>>

NextSanitize == SanitizeStep

SpecSanitize == InitSanitize /\ [][NextSanitize]_vars

Sanitized == parse.pc = "done" /\ parse.by = "sanitize"

Max(S) == CHOOSE x \in S : \A y \in S : y <= x

\* s without the characters before its first and after its last character
\* that is not in `chars`; empty when every character is in `chars`
Strip(s, chars) ==
    LET keep == {i \in 1..Len(s) : s[i] \notin chars}
    IN IF keep = {} THEN <<>> ELSE SubSeq(s, Min(keep), Max(keep))

\* s without its trailing run of characters of `chars`
StripEnd(s, chars) ==
    LET keep == {i \in 1..Len(s) : s[i] \notin chars}
    IN IF keep = {} THEN <<>> ELSE SubSeq(s, 1, Max(keep))

WhiteSpace == {" ", "\n", "\r", "\t"}
Closers == {",", "}", "]"}

Unquote(s) ==
    IF Len(s) >= 2 /\ s[1] = "\"" /\ s[Len(s)] = "\""
    THEN SubSeq(s, 2, Len(s) - 1) ELSE s

\* C12 as stated: the value is trimmed, ONE trailing character out of comma,
\* closing brace and closing bracket is removed when present (not a run),
\* one pair of surrounding double quotes is removed, and nothing else is
\* altered (whitespace uncovered by a removal is trimmed as well).
C12_OneTrailingCharRemoved ==
    Sanitized =>
        LET t == Strip(output, WhiteSpace)
            u == IF t # <<>> /\ t[Len(t)] \in Closers
                 THEN SubSeq(t, 1, Len(t) - 1) ELSE t
        IN parse.result = Some(Strip(Unquote(Strip(u, WhiteSpace)), WhiteSpace))

\* C12 amended: the value is trimmed, its whole trailing run of commas,
\* closing braces, closing brackets and whitespace is removed, one pair of
\* surrounding double quotes is removed when present, and the whitespace
\* around what was inside the quotes is trimmed; the result is that part of
\* the value, unaltered.
C12_TrailingRunRemoved ==
    Sanitized =>
        LET t == Strip(output, WhiteSpace)
            u == StripEnd(t, Closers \cup WhiteSpace)
        IN parse.result = Some(Strip(Unquote(u), WhiteSpace))

\* a quoted value followed by a run of two closers has been sanitized
C12_Witness ==
    /\ Sanitized
    /\ output = <<"\"", "x", "\"", ",", "}">>
    /\ parse.result = Some(<<"x">>)

(***************************************************************************)
(* fetch_server_binary calls of two tasks on one container directory       *)
(* (SpecConcurrent): the steps of the calls interleave at their awaits     *)
(***************************************************************************)
Running(q) == call[q].pc \notin {"idle", "done", "returned"}

\* a task calls fetch_server_binary whether or not the other task's call is
\* in progress; overlap records that the two calls ran at the same time
BeginConcurrent(p, n, e) ==
    /\ call[p].pc = "idle"
    /\ \A q \in Procs : call[q].pc # "done"
    /\ LET others == {q \in Procs \ {p} : Running(q)}
       IN call' = [q \in Procs |->
                IF q = p
                THEN [IdleCall EXCEPT !.pc = "read_metadata", !.name = n,
                                      !.expected = e,
                                      !.repeat = (lastOk.fresh /\ lastOk.name = n),
                                      !.overlap = (others # {})]
                ELSE IF q \in others THEN [call[q] EXCEPT !.overlap = TRUE]
                ELSE call[q]]
    /\ cached' = NoQuery
    /\ UNCHANGED <<fsVars, lastOk>>
    /\ UNCHANGED notFetch

\* write_to_file(.., &metadata_path).await? when the version directory that
\* holds metadata_path is no longer there: the write fails
WriteMetadataNoDir(p) ==
    /\ call[p].pc = "write_metadata"
    /\ call[p].name \notin versionDirs
    /\ call' = [call EXCEPT ![p] = Finish(@, "Err", "no version dir")]
    /\ UNCHANGED <<fsVars, cached, lastOk>>
    /\ UNCHANGED notFetch

\* each of the two tasks makes one call: the caller takes the result and
\* calls no more
TakeResult(p) ==
    /\ call[p].pc = "done"
    /\ call' = [call EXCEPT ![p] = [IdleCall EXCEPT !.pc = "returned"]]
    /\ lastOk' = IF call[p].result = "Ok"
                 THEN [name |-> call[p].name, fresh |-> TRUE]
                 ELSE [lastOk EXCEPT !.fresh = FALSE]
    /\ UNCHANGED <<fsVars, cached>>
    /\ UNCHANGED notFetch

InitConcurrent == Init /\ ~stray

NextConcurrent ==
    \/ \E p \in Procs, n \in Names, e \in Digests \cup {None} : BeginConcurrent(p, n, e)
    \/ \E p \in Procs : ReadMetadata(p)
    \/ \E p \in Procs, ok \in BOOLEAN : ValidityCheck(p, ok)
    \/ \E p \in Procs : CheckBinary(p)
    \/ \E p \in Procs, layout \in Layouts : DownloadOk(p, layout)
    \/ \E p \in Procs, left \in Layouts \cup {"clean"} : DownloadFail(p, left)
    \/ \E p \in Procs : FindBinary(p)
    \/ \E p \in Procs : CreateDir(p)
    \/ \E p \in Procs, x \in BOOLEAN : CopyBinary(p, x)
    \/ \E p \in Procs : RemoveMatching(p)
    \/ \E p \in Procs : WriteMetadata(p)
    \/ \E p \in Procs : WriteMetadataNoDir(p)
    \/ \E p \in Procs : SpawnWarmup(p)
    \/ \E p \in Procs : WarmupRun(p)
    \/ \E p \in Procs : SetPermissions(p)
    \/ \E p \in Procs : IoError(p)
    \/ \E p \in Procs : TakeResult(p)

SpecConcurrent == InitConcurrent /\ [][NextConcurrent]_vars

\* the file of a returned path is on disk
OnDisk(path) ==
    \E n \in Names : path = BinaryPath(n) /\ n \in versionDirs /\ binary[n].present

\* the outcomes of the race: Ok with a path that is not on disk, or the
\* cache record write failing because the version directory is gone
LostBinary(p) == Done(p) /\ call[p].result = "Ok" /\ ~OnDisk(call[p].path)
LostRecord(p) == Done(p) /\ call[p].err = "no version dir"

\* C13: a call returns Ok with a binary path that no longer exists, or fails
\* writing its cache record because its version directory was deleted, only
\* if it ran concurrently with the other call; calls that run one after the
\* other never end this way (the witness is the interleaving in which both
\* outcomes happen to two concurrent calls for different versions).
C13_RaceOnlyWhenConcurrent ==
    \A p \in Procs : (LostBinary(p) \/ LostRecord(p)) => call[p].overlap

\* A's version directory was deleted by B's sibling deletion after A had
\* returned Ok, and B's cache record write failed because A's sibling
\* deletion had removed B's version directory
C13_Witness ==
    /\ call["A"].name # call["B"].name
    /\ LostBinary("A")
    /\ LostRecord("B")
    /\ call["A"].installed

(***************************************************************************)
(* Failed acquisitions (Spec)                                              *)
(***************************************************************************)
\* what the call found in the container directory is still there, unaltered:
\* every version directory with its binary and its cache record
CacheIntact(c) ==
    \A n \in c.before.versionDirs :
        /\ n \in versionDirs
        /\ binary[n] = c.before.binary[n]
        /\ metadata[n] = c.before.metadata[n]

\* C14: when fetch_server_binary fails in the download or because the binary
\* is not found in the extracted tree, the error is returned and every
\* version directory and cache record that existed before the call is
\* still there unmodified; up to and including the copy of the new binary
\* nothing has been evicted and no cache record has been written.
C14_FailureKeepsCache ==
    \A p \in Procs :
        /\ (Done(p) /\ call[p].err \in {"download", "find"}) =>
                call[p].result = "Err" /\ CacheIntact(call[p])
        /\ call[p].pc \in {"read_metadata", "validity_check", "check_binary",
                            "download", "find", "create_dir", "copy"} =>
                /\ CacheIntact(call[p])
                /\ metadata = call[p].before.metadata

\* a call for v2 failed to find the binary in the extracted tree while v1
\* was installed with its cache record
C14_Witness ==
    \E p \in Procs :
        /\ Done(p) /\ call[p].err = "find" /\ call[p].name = "v2"
        /\ call[p].before.versionDirs = {"v1"}
        /\ call[p].before.metadata["v1"].present
        /\ call[p].before.binary["v1"].present
        /\ staging["v2"].present

(***************************************************************************)
(* Offline query after a sequence of calls (Spec)                          *)
(***************************************************************************)
\* C15: after any sequence of fetch_server_binary calls, successful or
\* failed, from an empty container directory, an offline query that can
\* read the directory returns the binary inside the version directory of
\* the most recent call that returned Ok, for every listing order; what
\* failed calls left behind never makes it return None or another path.
C15_CachedReturnsLastOk ==
    (cached.asked /\ cached.readable /\ lastOk.name # None)
        => cached.result = BinaryPath(lastOk.name)

====
